---- MODULE Spec2Model ----
(***************************************************************************)
(* Model of src/src/extension.ts (vscode-julia-formatter).                 *)
(*                                                                         *)
(* Three specifications share this module:                                 *)
(*   Spec       the format request pipeline: getJulia, buildFormatCommand, *)
(*              formatFile, alertFormattingError, installDocformatter and  *)
(*              the provider registered by activate, for NumRequests       *)
(*              overlapping requests;                                      *)
(*   SpecCmd    buildFormatCommand over the juliaFormatter settings;       *)
(*   SpecEdits  hunksToEdits over unified diffs of small documents, and    *)
(*              the host applying the returned edits.                      *)
(* Each promise continuation is one action: between two awaits of a        *)
(* subprocess the code runs to completion (one macrotask and its           *)
(* microtasks), so nothing interleaves inside an action.                   *)
(***************************************************************************)
EXTENDS Integers, Sequences, FiniteSets, TLC

VARIABLES
    \* ---- request pipeline ----
    executablePath,   \* the "julia.executablePath" setting
    settings,         \* the "juliaFormatter" settings
    pc,               \* position of each thread of control
    julia,            \* what getJulia returned to each thread
    execs,            \* subprocesses each thread has started, in order
    msgs,             \* error messages each thread has shown, in order
    command,          \* the format command built for each request
    progressBar,      \* the module-level status bar item reference
    bars,             \* the status bar item created by each request
    errors,           \* the error formatFile caught, per request
    picked,           \* whether the user picked the prompt's button
    opened,           \* whether the bug report page was opened
    outcome,          \* how the provider's promise settled, per request
    \* ---- buildFormatCommand alone ----
    cphase, cpath, ccommand,
    \* ---- hunksToEdits alone ----
    ephase, orig, fmt, oldPos, cur, hunks, edits, applied

pvars == <<executablePath, pc, julia, execs, msgs, command, progressBar,
           bars, errors, picked, opened, outcome>>
cvars == <<cphase, cpath, ccommand>>
evars == <<ephase, orig, fmt, oldPos, cur, hunks, edits, applied>>
vars == <<pvars, settings, cvars, evars>>

\* ------------------------------------------------------------------------
\* Bounds
NumRequests == 2       \* overlapping format requests
MaxLines == 2          \* lines of a generated original document
MaxDiffLines == 3      \* hunk lines of a generated diff, over all its hunks

\* ------------------------------------------------------------------------
\* Values

Undefined == "undefined"       \* a setting the configuration does not hold
Null == "null"
Requests == 1..NumRequests
Threads == Requests \X {"format", "install"}
F(r) == <<r, "format">>
I(r) == <<r, "install">>

\* Values of the julia.executablePath setting: absent, empty, or a path.
ExecutablePaths == {Undefined, "", "~/julia", "/opt/julia"}

\* untildify: a leading "~" becomes the home directory.
untildify(p) == IF p = "~/julia" THEN "/home/user/julia" ELSE p

\* WorkspaceConfiguration.get(key, defaultValue)
ConfigGet(value, defaultValue) == IF value = Undefined THEN defaultValue ELSE value

\* s.includes(sub), on sequences of words
Includes(s, sub) ==
    \E i \in 0..(Len(s) - Len(sub)) : SubSeq(s, i + 1, i + Len(sub)) = sub

MissingPackageMarker == <<"Package", "JuliaFormatter", "not", "found">>

\* Messages of the errors a failed format command or a failed parse can carry.
ErrorMessages == {
    <<"Command", "failed:", "ERROR:", "ArgumentError:", "Package",
      "JuliaFormatter", "not", "found", "in", "current", "path">>,
    <<"Command", "failed:", "ERROR:", "Package", "JuliaFormatter", "found",
      "not", "loadable">>,
    <<"Command", "failed:", "ERROR:", "syntax">> }

\* ------------------------------------------------------------------------
\* buildFormatCommand (the part after getJulia has returned)

\* contributes.configuration of package.json: the value settings.get(key)
\* returns for a key the user has not set.
PackageDefault == [
    margin |-> 92,
    alwaysForIn |-> TRUE,
    indent |-> 4,
    overwrite |-> TRUE,
    compile |-> "min",
    whitespace_typedefs |-> FALSE,
    whitespace_ops_in_indices |-> FALSE ]

\* A user setting: set or not; an unset one carries no value of its own.
NotSet(filler) == [set |-> FALSE, value |-> filler]
UserSet(v) == [set |-> TRUE, value |-> v]

\* The user settings the model draws from (FormatOptions and compileMode).
SettingsSpace == [
    margin : {NotSet(0)} \cup {UserSet(v) : v \in {80, 92, 120}},
    alwaysForIn : {NotSet(FALSE)} \cup {UserSet(v) : v \in BOOLEAN},
    indent : {NotSet(0)} \cup {UserSet(v) : v \in {0, 2, 4}},
    overwrite : {NotSet(FALSE)} \cup {UserSet(v) : v \in BOOLEAN},
    compile : {NotSet("")} \cup {UserSet(v) : v \in {"min", "all"}},
    whitespace_typedefs : {NotSet(FALSE)} \cup {UserSet(v) : v \in BOOLEAN},
    whitespace_ops_in_indices : {NotSet(FALSE)} \cup {UserSet(v) : v \in BOOLEAN} ]

NoSettings == [
    margin |-> NotSet(0), alwaysForIn |-> NotSet(FALSE), indent |-> NotSet(0),
    overwrite |-> NotSet(FALSE), compile |-> NotSet(""),
    whitespace_typedefs |-> NotSet(FALSE),
    whitespace_ops_in_indices |-> NotSet(FALSE) ]

\* settings.get(key), for a key package.json declares
SettingsGet(s, key) == IF s[key].set THEN s[key].value ELSE PackageDefault[key]

\* JavaScript's a || b: b when a is falsy (0, false, ""), else a.
OrNumber(a, b) == IF a = 0 THEN b ELSE a
OrBoolean(a, b) == IF a THEN a ELSE b
OrString(a, b) == IF a = "" THEN b ELSE a

\* Document paths, as sequences of pieces; "\\" is one backslash.
Paths == { <<"/home/user/a.jl">>, <<"C:", "\\", "src", "\\", "a.jl">> }

\* path.split('\\').join('\\\\'): every backslash is doubled.
RECURSIVE EscapePath(_)
EscapePath(path) ==
    IF path = <<>> THEN <<>>
    ELSE (IF Head(path) = "\\" THEN <<"\\", "\\">> ELSE <<Head(path)>>)
         \o EscapePath(Tail(path))

\* The command line, as its pieces: the tool, the --compile flag, the escaped
\* path and the named arguments of format(...) in the template's order. The
\* pieces stand one space apart, as join(' '), trim() and the replace of the
\* first whitespace run leave them for a tool name without whitespace.
buildFormatCommand(tool, path, s) ==
    LET margin == OrNumber(SettingsGet(s, "margin"), 92)
        indent == OrNumber(SettingsGet(s, "indent"), 4)
        afi == OrBoolean(SettingsGet(s, "alwaysForIn"), TRUE)
        overwrite == OrBoolean(SettingsGet(s, "overwrite"), TRUE)
        compile == OrString(SettingsGet(s, "compile"), "min")
        whitespace_typedefs ==
            OrBoolean(SettingsGet(s, "whitespace_typedefs"), FALSE)
        whitespace_ops_in_indices ==
            OrBoolean(SettingsGet(s, "whitespace_ops_in_indices"), FALSE)
    IN  [ julia |-> tool,
          compile |-> compile,
          epath |-> EscapePath(path),
          args |-> << <<"overwrite", overwrite>>,
                      <<"indent", indent>>,
                      <<"margin", margin>>,
                      <<"always_for_in", afi>>,
                      <<"whitespace_typedefs", whitespace_typedefs>>,
                      <<"whitespace_ops_in_indices", whitespace_ops_in_indices>> >> ]

NoCommand == [ julia |-> Null, compile |-> "", epath |-> <<>>, args |-> <<>> ]

\* ------------------------------------------------------------------------
\* hunksToEdits

\* Line delimiters diff.parsePatch records
Eols == {"\n", "\r\n"}

\* array.join(separator), the elements being sequences of characters
RECURSIVE Join(_, _)
Join(strs, sep) ==
    IF strs = <<>> THEN <<>>
    ELSE IF Len(strs) = 1 THEN strs[1]
    ELSE strs[1] \o <<sep>> \o Join(Tail(strs), sep)

\* line.charAt(0): "" for the empty string
charAt0(line) == IF line = <<>> THEN "" ELSE line[1]

\* line.substr(1)
substr1(line) == IF line = <<>> THEN <<>> ELSE Tail(line)

\* hunkToEdit with a filter that keeps the addition lines only.
hunkToEdit_AdditionsOnly(hunk) ==
    LET kept == SelectSeq(hunk.lines, LAMBDA line : charAt0(line) = "+")
    IN  [range |-> [start |-> [line |-> hunk.newStart - 1, character |-> 0],
                    end |-> [line |-> hunk.newStart - 1 + hunk.oldLines - 1,
                             character |-> Len(hunk.lines[Len(hunk.lines)]) - 1]],
         newText |-> Join([i \in 1..Len(kept) |-> substr1(kept[i])],
                          hunk.linedelimiters[1])]

\* The callback of hunks.map: the TextEdit of one hunk, as the arguments
\* the code hands to vscode.Position, vscode.Range and vscode.TextEdit.
hunkToEdit(hunk) ==
    LET startPos == [line |-> hunk.newStart - 1, character |-> 0]
        endPos == [line |-> hunk.newStart - 1 + hunk.oldLines - 1,
                   character |-> Len(hunk.lines[Len(hunk.lines)]) - 1]
        editRange == [start |-> startPos, end |-> endPos]
        kept == SelectSeq(hunk.lines,
                    LAMBDA line : charAt0(line) = " " \/ charAt0(line) = "+")
        newTextLines == [i \in 1..Len(kept) |-> substr1(kept[i])]
        lineEndChar == hunk.linedelimiters[1]
        newText == Join(newTextLines, lineEndChar)
    IN  [range |-> editRange, newText |-> newText]

hunksToEdits(hs) == [i \in 1..Len(hs) |-> hunkToEdit(hs[i])]

\* The hunk of the specification's worked example.
ExampleHunk == [
    oldStart |-> 3, oldLines |-> 2, newStart |-> 3, newLines |-> 3,
    lines |-> << <<" ", "a">>, <<"-", "b">>, <<"+", "c">>, <<"+", "d">> >>,
    linedelimiters |-> <<"\n", "\n", "\n", "\n">> ]

\* ------------------------------------------------------------------------
\* Documents, and the host applying a provider's TextEdits

\* A document is a sequence of lines, each with its text and its delimiter.
DocLine(text, eol) == [text |-> text, eol |-> eol]

\* The document's text: every line followed by its delimiter.
RECURSIVE Flatten(_)
Flatten(doc) ==
    IF doc = <<>> THEN <<>>
    ELSE Head(doc).text \o <<Head(doc).eol>> \o Flatten(Tail(doc))

\* Offsets at which the lines of the text start: 0, and the offset after
\* each delimiter.
RECURSIVE LineStartsFrom(_, _)
LineStartsFrom(text, i) ==
    IF i > Len(text) THEN <<>>
    ELSE (IF text[i] \in Eols THEN <<i>> ELSE <<>>) \o LineStartsFrom(text, i + 1)
LineStarts(text) == <<0>> \o LineStartsFrom(text, 1)

\* Length of line k (zero-based) of a text of length len whose lines start
\* at the offsets starts.
LineLength(starts, len, k) ==
    (IF k = Len(starts) - 1 THEN len ELSE starts[k + 2] - 1) - starts[k + 1]

\* TextDocument.validatePosition: a position clamped into the document.
validatePosition(starts, len, pos) ==
    IF pos.line < 0 THEN [line |-> 0, character |-> 0]
    ELSE IF pos.line >= Len(starts)
    THEN [line |-> Len(starts) - 1,
          character |-> LineLength(starts, len, Len(starts) - 1)]
    ELSE [line |-> pos.line,
          character |->
              IF pos.character < 0 THEN 0
              ELSE IF pos.character > LineLength(starts, len, pos.line)
              THEN LineLength(starts, len, pos.line)
              ELSE pos.character]

\* TextDocument.offsetAt
offsetAt(starts, len, pos) ==
    starts[validatePosition(starts, len, pos).line + 1]
    + validatePosition(starts, len, pos).character

\* An edit as the host sees it: offsets into the original text, the lower
\* one first (vscode.Range orders its two positions).
ResolvedEdit(starts, len, edit) ==
    LET a == offsetAt(starts, len, edit.range.start)
        b == offsetAt(starts, len, edit.range.end)
    IN  [from |-> IF a <= b THEN a ELSE b,
         to |-> IF a <= b THEN b ELSE a,
         newText |-> edit.newText]

RECURSIVE ResolveAll(_, _, _)
ResolveAll(starts, len, es) ==
    IF es = <<>> THEN <<>>
    ELSE <<ResolvedEdit(starts, len, Head(es))>> \o ResolveAll(starts, len, Tail(es))

\* The edits are one transaction against the original text: the text after
\* replacing the edits numbered in todo, the one furthest down first.
RECURSIVE ApplyResolved(_, _, _)
ApplyResolved(text, rs, todo) ==
    IF todo = {} THEN text
    ELSE LET i == CHOOSE k \in todo :
                    \A j \in todo : rs[j].from < rs[k].from
                                    \/ (rs[j].from = rs[k].from /\ j <= k)
             replaced == SubSeq(text, 1, rs[i].from) \o rs[i].newText
                         \o SubSeq(text, rs[i].to + 1, Len(text))
         IN  ApplyResolved(replaced, rs, todo \ {i})

\* The host rejects a set of edits with overlapping ranges and leaves the
\* document as it is.
HostApply(text, es) ==
    LET rs == ResolveAll(LineStarts(text), Len(text), es)
        overlap == \E i, j \in 1..Len(es) :
                       i # j /\ rs[i].from < rs[j].to /\ rs[j].from < rs[i].to
    IN  IF overlap THEN text ELSE ApplyResolved(text, rs, 1..Len(es))

\* ------------------------------------------------------------------------
\* The request pipeline

\* The document every request formats.
DocumentPath == <<"/home/user/a.jl">>

\* Standard outputs of a format command that exited with status 0: nothing
\* (the tool rewrote the file in place), a unified diff, or text on which
\* diff.parsePatch throws.
Stdouts == {"", "diff", "malformed"}

\* diff.parsePatch(stdout): the list of parsed files, or an exception. Text
\* without any hunk header parses to one file with no hunks.
parsePatch(stdout) ==
    CASE stdout = "diff" -> [threw |-> FALSE, files |-> <<[hunks |-> <<ExampleHunk>>]>>]
      [] stdout = "malformed" -> [threw |-> TRUE, files |-> <<>>]
      [] OTHER -> [threw |-> FALSE, files |-> <<[hunks |-> <<>>]>>]

ParseErrorMessage == <<"Unknown", "line", "1">>

Pending == [state |-> "pending", translated |-> FALSE, edits |-> <<>>]
Rejected == [state |-> "rejected", translated |-> FALSE, edits |-> <<>>]
ResolvedWith(es) == [state |-> "resolved", translated |-> TRUE, edits |-> es]

VersionCheck(tool, quoted) == [kind |-> "version", tool |-> tool, quoted |-> quoted]
FormatRun(tool) == [kind |-> "format", tool |-> tool, quoted |-> FALSE]
InstallRun(tool) == [kind |-> "install", tool |-> tool, quoted |-> FALSE]

\* getJulia, lines 16-20: the configured path, or Null when there is none.
jlpath ==
    LET p == untildify(ConfigGet(executablePath, "julia"))
    IN  IF p = "" THEN Null ELSE p

\* getJulia up to its first await: the first version check is started.
getJuliaCall(t) ==
    /\ pc' = [pc EXCEPT ![t] = IF jlpath # Null THEN "gj_configured" ELSE "gj_julia"]
    /\ execs' = [execs EXCEPT ![t] =
                    Append(@, IF jlpath # Null THEN VersionCheck(jlpath, TRUE)
                              ELSE VersionCheck("julia", FALSE))]

\* getJulia returned tool to thread t. A format thread goes on through
\* buildFormatCommand into formatFile, up to the await of the format command;
\* an install thread starts the install command.
getJuliaReturned(t, tool) ==
    /\ julia' = [julia EXCEPT ![t] = tool]
    /\ IF t[2] = "format"
       THEN /\ command' = [command EXCEPT ![t[1]] =
                              buildFormatCommand(tool, DocumentPath, settings)]
            /\ progressBar' = t[1]
            /\ bars' = [bars EXCEPT ![t[1]] = "shown"]
            /\ execs' = [execs EXCEPT ![t] = Append(@, FormatRun(tool))]
            /\ pc' = [pc EXCEPT ![t] = "exec_format"]
       ELSE /\ execs' = [execs EXCEPT ![t] = Append(@, InstallRun(tool))]
            /\ pc' = [pc EXCEPT ![t] = "exec_install"]
            /\ UNCHANGED <<command, progressBar, bars>>
    /\ UNCHANGED <<cvars, evars, executablePath, settings, msgs, errors, picked, opened, outcome>>

\* getJulia showed message and threw. buildFormatCommand and formatFile let
\* the error through (formatFile awaits buildFormatCommand outside its try),
\* so the provider's promise rejects; installDocformatter's caller drops it.
getJuliaThrew(t, message) ==
    /\ msgs' = [msgs EXCEPT ![t] = Append(@, message)]
    /\ pc' = [pc EXCEPT ![t] = IF t[2] = "format" THEN "rejected" ELSE "failed"]
    /\ outcome' = IF t[2] = "format" THEN [outcome EXCEPT ![t[1]] = Rejected]
                  ELSE outcome
    /\ UNCHANGED <<cvars, evars, executablePath, settings, julia, execs, command, progressBar,
                   bars, errors, picked, opened>>

\* The registered provider is asked for edits: formatFile, buildFormatCommand
\* and getJulia run up to the first version check.
provideDocumentFormattingEdits(r) ==
    /\ pc[F(r)] = "idle"
    /\ getJuliaCall(F(r))
    /\ UNCHANGED <<cvars, evars, executablePath, settings, julia, msgs, command, progressBar,
                   bars, errors, picked, opened, outcome>>

\* `"${jlpath}" --version` exited with status 0.
ConfiguredPathValid(t) ==
    /\ pc[t] = "gj_configured"
    /\ getJuliaReturned(t, jlpath)

\* ConfiguredPathInvalid falling through to the default command names.
ConfiguredPathInvalid_FallsThrough(t) ==
    /\ pc[t] = "gj_configured"
    /\ pc' = [pc EXCEPT ![t] = "gj_julia"]
    /\ execs' = [execs EXCEPT ![t] = Append(@, VersionCheck("julia", FALSE))]
    /\ UNCHANGED <<cvars, evars, executablePath, settings, julia, msgs, command,
                   progressBar, bars, errors, picked, opened, outcome>>

\* `"${jlpath}" --version` failed.
ConfiguredPathInvalid(t) ==
    /\ pc[t] = "gj_configured"
    /\ getJuliaThrew(t, "InvalidPath")

\* `julia --version` exited with status 0.
JuliaValid(t) ==
    /\ pc[t] = "gj_julia"
    /\ getJuliaReturned(t, "julia")

\* `julia --version` failed: `jl --version` is started.
JuliaInvalid(t) ==
    /\ pc[t] = "gj_julia"
    /\ pc' = [pc EXCEPT ![t] = "gj_jl"]
    /\ execs' = [execs EXCEPT ![t] = Append(@, VersionCheck("jl", FALSE))]
    /\ UNCHANGED <<cvars, evars, executablePath, settings, julia, msgs, command, progressBar,
                   bars, errors, picked, opened, outcome>>

\* `jl --version` exited with status 0.
JlValid(t) ==
    /\ pc[t] = "gj_jl"
    /\ getJuliaReturned(t, "jl")

\* `jl --version` failed.
JlInvalid(t) ==
    /\ pc[t] = "gj_jl"
    /\ getJuliaThrew(t, "NotInstalled")

\* alertFormattingError matching the marker at the start of the message only.
alertFormattingError_PrefixOnly(message) ==
    IF Len(message) >= Len(MissingPackageMarker)
       /\ SubSeq(message, 1, Len(MissingPackageMarker)) = MissingPackageMarker
    THEN "InstallPrompt" ELSE "BugPrompt"

\* alertFormattingError up to its await: the prompt it shows for err.
alertFormattingError(message) ==
    IF Includes(message, MissingPackageMarker) THEN "InstallPrompt" ELSE "BugPrompt"

\* formatFile's catch block without its `throw err`: the error is alerted and
\* the provider resolves with no edits.
formatFileCatch_Swallows(r, message) ==
    /\ errors' = [errors EXCEPT ![r] = message]
    /\ msgs' = [msgs EXCEPT ![F(r)] = Append(@, alertFormattingError(message))]
    /\ pc' = [pc EXCEPT ![F(r)] = "resolved",
                        ![I(r)] = IF alertFormattingError(message) = "InstallPrompt"
                                  THEN "prompt_install" ELSE "prompt_bug"]
    /\ outcome' = [outcome EXCEPT ![r] = ResolvedWith(<<>>)]
    /\ UNCHANGED <<cvars, evars, executablePath, settings, julia, execs, command,
                   progressBar, bars, picked, opened>>

\* formatFile's catch block: alertFormattingError(err) shows its prompt and
\* is left running, and the error is thrown on to the provider's caller.
formatFileCatch(r, message) ==
    /\ errors' = [errors EXCEPT ![r] = message]
    /\ msgs' = [msgs EXCEPT ![F(r)] = Append(@, alertFormattingError(message))]
    /\ pc' = [pc EXCEPT ![F(r)] = "rejected",
                        ![I(r)] = IF alertFormattingError(message) = "InstallPrompt"
                                  THEN "prompt_install" ELSE "prompt_bug"]
    /\ outcome' = [outcome EXCEPT ![r] = Rejected]
    /\ UNCHANGED <<cvars, evars, executablePath, settings, julia, execs, command, progressBar,
                   bars, picked, opened>>

\* The format command failed (a non-zero exit status) with the given message.
FormatCommandFailed(r, message) ==
    /\ pc[F(r)] = "exec_format"
    /\ formatFileCatch(r, message)

\* formatFile, lines 127-129, and the provider's .then(hunksToEdits).
formatFileReturn(r, parsed) ==
    /\ bars' = [bars EXCEPT ![progressBar] = "hidden"]
    /\ outcome' = [outcome EXCEPT ![r] = ResolvedWith(hunksToEdits(parsed.files[1].hunks))]
    /\ pc' = [pc EXCEPT ![F(r)] = "resolved"]
    /\ UNCHANGED <<cvars, evars, executablePath, settings, julia, execs, msgs, command,
                   progressBar, errors, picked, opened>>

\* The format command exited with status 0 and wrote stdout.
FormatCommandSucceeded(r, stdout) ==
    /\ pc[F(r)] = "exec_format"
    /\ IF parsePatch(stdout).threw
       THEN formatFileCatch(r, ParseErrorMessage)
       ELSE formatFileReturn(r, parsePatch(stdout))

\* The user answers the install prompt with its button: installDocformatter
\* runs up to getJulia's first version check.
InstallPicked(r) ==
    /\ pc[I(r)] = "prompt_install"
    /\ picked' = [picked EXCEPT ![r] = TRUE]
    /\ getJuliaCall(I(r))
    /\ UNCHANGED <<cvars, evars, executablePath, settings, julia, msgs, command, progressBar,
                   bars, errors, opened, outcome>>

\* The user dismisses a prompt.
PromptDismissed(r) ==
    /\ pc[I(r)] \in {"prompt_install", "prompt_bug"}
    /\ pc' = [pc EXCEPT ![I(r)] = "done"]
    /\ UNCHANGED <<cvars, evars, executablePath, settings, julia, execs, msgs, command,
                   progressBar, bars, errors, picked, opened, outcome>>

\* The user answers the bug report prompt with its button.
BugReportPicked(r) ==
    /\ pc[I(r)] = "prompt_bug"
    /\ picked' = [picked EXCEPT ![r] = TRUE]
    /\ opened' = [opened EXCEPT ![r] = TRUE]
    /\ pc' = [pc EXCEPT ![I(r)] = "done"]
    /\ UNCHANGED <<cvars, evars, executablePath, settings, julia, execs, msgs, command,
                   progressBar, bars, errors, outcome>>

\* The install command exited with status 0.
InstallSucceeded(r) ==
    /\ pc[I(r)] = "exec_install"
    /\ pc' = [pc EXCEPT ![I(r)] = "done"]
    /\ UNCHANGED <<cvars, evars, executablePath, settings, julia, execs, msgs, command,
                   progressBar, bars, errors, picked, opened, outcome>>

\* The install command failed.
InstallFailed(r) ==
    /\ pc[I(r)] = "exec_install"
    /\ msgs' = [msgs EXCEPT ![I(r)] = Append(@, "InstallFailed")]
    /\ pc' = [pc EXCEPT ![I(r)] = "failed"]
    /\ UNCHANGED <<cvars, evars, executablePath, settings, julia, execs, command, progressBar,
                   bars, errors, picked, opened, outcome>>

\* The variables of the specifications not running hold fixed values.
IdleP ==
    /\ executablePath = "" /\ pc = <<>> /\ julia = <<>> /\ execs = <<>>
    /\ msgs = <<>> /\ command = <<>> /\ progressBar = 0 /\ bars = <<>>
    /\ errors = <<>> /\ picked = <<>> /\ opened = <<>> /\ outcome = <<>>
IdleC == cphase = "unused" /\ cpath = <<>> /\ ccommand = NoCommand
IdleE ==
    /\ ephase = "unused" /\ orig = <<>> /\ fmt = <<>> /\ oldPos = 0
    /\ cur = <<>> /\ hunks = <<>> /\ edits = <<>> /\ applied = <<>>

\* The pipeline before any request, under a given executablePath setting.
InitPipeline(setting) ==
    /\ executablePath = setting
    /\ pc = [t \in Threads |-> IF t[2] = "format" THEN "idle" ELSE "none"]
    /\ julia = [t \in Threads |-> Null]
    /\ execs = [t \in Threads |-> <<>>]
    /\ msgs = [t \in Threads |-> <<>>]
    /\ command = [r \in Requests |-> NoCommand]
    /\ progressBar = 0
    /\ bars = [r \in Requests |-> "none"]
    /\ errors = [r \in Requests |-> <<>>]
    /\ picked = [r \in Requests |-> FALSE]
    /\ opened = [r \in Requests |-> FALSE]
    /\ outcome = [r \in Requests |-> Pending]

Init ==
    /\ \E setting \in ExecutablePaths : InitPipeline(setting)
    /\ settings = NoSettings
    /\ IdleC /\ IdleE

Next ==
    \/ \E r \in Requests : provideDocumentFormattingEdits(r)
    \/ \E t \in Threads : ConfiguredPathValid(t)
    \/ \E t \in Threads : ConfiguredPathInvalid(t)
    \/ \E t \in Threads : JuliaValid(t)
    \/ \E t \in Threads : JuliaInvalid(t)
    \/ \E t \in Threads : JlValid(t)
    \/ \E t \in Threads : JlInvalid(t)
    \/ \E r \in Requests, m \in ErrorMessages : FormatCommandFailed(r, m)
    \/ \E r \in Requests, o \in Stdouts : FormatCommandSucceeded(r, o)
    \/ \E r \in Requests : InstallPicked(r)
    \/ \E r \in Requests : PromptDismissed(r)
    \/ \E r \in Requests : BugReportPicked(r)
    \/ \E r \in Requests : InstallSucceeded(r)
    \/ \E r \in Requests : InstallFailed(r)

Spec == Init /\ [][Next]_vars

\* ------------------------------------------------------------------------
\* buildFormatCommand alone, over the juliaFormatter settings

InitCmd ==
    /\ IdleP
    /\ settings \in SettingsSpace
    /\ cphase = "ready" /\ cpath \in Paths /\ ccommand = NoCommand
    /\ IdleE

\* buildFormatCommand(path), getJulia having returned "julia"
BuildCommand ==
    /\ cphase = "ready"
    /\ ccommand' = buildFormatCommand("julia", cpath, settings)
    /\ cphase' = "built"
    /\ UNCHANGED <<pvars, settings, cpath, evars>>

NextCmd == BuildCommand

SpecCmd == InitCmd /\ [][NextCmd]_vars

\* ------------------------------------------------------------------------
\* hunksToEdits alone: the formatter turns an original document into a
\* formatted one and describes the change as a unified diff, hunk line by
\* hunk line; diff.parsePatch hands the hunks to hunksToEdits; the host
\* applies the edits to the original document.

Texts == { <<"a">>, <<"a", "b">> }

NoHunk == <<>>

\* The specification's worked example as a whole document.
ExampleOrig == << DocLine(<<"x">>, "\n"), DocLine(<<"y">>, "\n"),
                  DocLine(<<"a">>, "\n"), DocLine(<<"b">>, "\n") >>
ExampleFmt == << DocLine(<<"x">>, "\n"), DocLine(<<"y">>, "\n"),
                 DocLine(<<"a">>, "\n"), DocLine(<<"c">>, "\n"),
                 DocLine(<<"d">>, "\n") >>

\* Hunk lines written so far, over all hunks.
DiffLines ==
    LET RECURSIVE Sum(_)
        Sum(hs) == IF hs = <<>> THEN 0 ELSE Len(Head(hs).lines) + Sum(Tail(hs))
    IN  Sum(hunks) + (IF cur = NoHunk THEN 0 ELSE Len(cur.lines))

\* The current hunk with one more line.
WithLine(hunk, prefix, docLine) ==
    [hunk EXCEPT !.lines = Append(@, <<prefix>> \o docLine.text),
                 !.linedelimiters = Append(@, docLine.eol),
                 !.oldLines = IF prefix = "+" THEN @ ELSE @ + 1,
                 !.newLines = IF prefix = "-" THEN @ ELSE @ + 1]

InitEdits ==
    /\ IdleP
    /\ settings = NoSettings
    /\ IdleC
    /\ edits = <<>> /\ applied = <<>> /\ cur = NoHunk
    /\ \/ /\ ephase = "diff"
          /\ \E eol \in Eols, n \in 0..MaxLines :
                orig \in [1..n -> {DocLine(t, eol) : t \in Texts}]
          /\ fmt = <<>> /\ oldPos = 1 /\ hunks = <<>>
       \/ /\ ephase = "parsed"
          /\ orig = ExampleOrig /\ fmt = ExampleFmt
          /\ oldPos = Len(ExampleOrig) + 1 /\ hunks = <<ExampleHunk>>

\* A line outside every hunk: the formatter left it as it was.
KeepLine ==
    /\ ephase = "diff" /\ cur = NoHunk /\ oldPos <= Len(orig)
    /\ fmt' = Append(fmt, orig[oldPos])
    /\ oldPos' = oldPos + 1
    /\ UNCHANGED <<pvars, settings, cvars, ephase, orig, cur, hunks, edits, applied>>

\* A hunk header, as diff.parsePatch reads it (a start given with a count
\* of 0 is read one higher, so each start is the next line's number).
OpenHunk ==
    /\ ephase = "diff" /\ cur = NoHunk /\ DiffLines < MaxDiffLines
    /\ cur' = [oldStart |-> oldPos, oldLines |-> 0,
               newStart |-> Len(fmt) + 1, newLines |-> 0,
               lines |-> <<>>, linedelimiters |-> <<>>]
    /\ UNCHANGED <<pvars, settings, cvars, ephase, orig, fmt, oldPos, hunks,
                   edits, applied>>

\* A context line of the current hunk.
ContextLine ==
    /\ ephase = "diff" /\ cur # NoHunk /\ DiffLines < MaxDiffLines
    /\ oldPos <= Len(orig)
    /\ cur' = WithLine(cur, " ", orig[oldPos])
    /\ fmt' = Append(fmt, orig[oldPos])
    /\ oldPos' = oldPos + 1
    /\ UNCHANGED <<pvars, settings, cvars, ephase, orig, hunks, edits, applied>>

\* A deletion line of the current hunk.
DeletionLine ==
    /\ ephase = "diff" /\ cur # NoHunk /\ DiffLines < MaxDiffLines
    /\ oldPos <= Len(orig)
    /\ cur' = WithLine(cur, "-", orig[oldPos])
    /\ oldPos' = oldPos + 1
    /\ UNCHANGED <<pvars, settings, cvars, ephase, orig, fmt, hunks, edits, applied>>

\* An addition line of the current hunk; it carries the delimiter the
\* document's lines have.
AdditionLine(docLine) ==
    /\ ephase = "diff" /\ cur # NoHunk /\ DiffLines < MaxDiffLines
    /\ orig # <<>> => docLine.eol = orig[1].eol
    /\ fmt # <<>> => docLine.eol = fmt[1].eol
    /\ cur' = WithLine(cur, "+", docLine)
    /\ fmt' = Append(fmt, docLine)
    /\ UNCHANGED <<pvars, settings, cvars, ephase, orig, oldPos, hunks, edits, applied>>

\* The current hunk ends; a hunk holds at least one changed line.
CloseHunk ==
    /\ ephase = "diff" /\ cur # NoHunk
    /\ \E i \in 1..Len(cur.lines) : cur.lines[i][1] \in {"+", "-"}
    /\ hunks' = Append(hunks, cur)
    /\ cur' = NoHunk
    /\ UNCHANGED <<pvars, settings, cvars, ephase, orig, fmt, oldPos, edits, applied>>

\* The diff is complete and parsed: formatFile returns its hunks.
DiffParsed ==
    /\ ephase = "diff" /\ cur = NoHunk /\ oldPos = Len(orig) + 1
    /\ hunks # <<>>
    /\ ephase' = "parsed"
    /\ UNCHANGED <<pvars, settings, cvars, orig, fmt, oldPos, cur, hunks, edits, applied>>

\* formatFile(...).then(hunksToEdits)
Translate ==
    /\ ephase = "parsed"
    /\ edits' = hunksToEdits(hunks)
    /\ ephase' = "translated"
    /\ UNCHANGED <<pvars, settings, cvars, orig, fmt, oldPos, cur, hunks, applied>>

\* The host applies the returned edits to the original document.
ApplyEdits ==
    /\ ephase = "translated"
    /\ applied' = HostApply(Flatten(orig), edits)
    /\ ephase' = "applied"
    /\ UNCHANGED <<pvars, settings, cvars, orig, fmt, oldPos, cur, hunks, edits>>

NextEdits ==
    \/ KeepLine
    \/ OpenHunk
    \/ ContextLine
    \/ DeletionLine
    \/ \E eol \in Eols, t \in Texts : AdditionLine(DocLine(t, eol))
    \/ CloseHunk
    \/ DiffParsed
    \/ Translate
    \/ ApplyEdits

SpecEdits == InitEdits /\ [][NextEdits]_vars

\* ------------------------------------------------------------------------
\* Claims

\* getJulia threw on thread t: the thread failed before a tool was resolved.
GetJuliaFailed(t) == pc[t] \in {"rejected", "failed"} /\ julia[t] = Null

Settled(r) == outcome[r].state # "pending"

\* Whether seq has no element twice.
NoRepeat(seq) == \A i, j \in 1..Len(seq) : seq[i] = seq[j] => i = j

\* C1: for every original document and every well-formed unified diff of it,
\* applying the edits hunksToEdits returns to the original document yields
\* exactly the document the formatter produced; stated for diffs whose
\* hunks each replace at least one line of the original document.
C1_EditsReproduceFormatted ==
    (ephase = "applied" /\ \A i \in 1..Len(hunks) : hunks[i].oldLines >= 1)
        => applied = Flatten(fmt)

\* C2: formatFile shows the progress indicator before the format command
\* starts and hides it on every path by which the request settles; stated for
\* a request that is the only one to have created an indicator.
C2_IndicatorHiddenWhenSettled ==
    \A r \in Requests :
        (\A q \in Requests \ {r} : bars[q] = "none") =>
            /\ pc[F(r)] = "exec_format" => bars[r] = "shown"
            /\ Settled(r) => bars[r] # "shown"

\* What the documentation promises for a setting: the configured value, the
\* default only when the user has not set it.
Documented(key) ==
    IF settings[key].set THEN settings[key].value ELSE PackageDefault[key]

\* C3: for every valid settings value buildFormatCommand returns the command
\* template with each named argument, in the fixed order, carrying the
\* configured value, the default being used only when the option is absent.
C3_CommandCarriesConfiguredValues ==
    cphase = "built" =>
        /\ ccommand.julia = "julia"
        /\ ccommand.compile = Documented("compile")
        /\ ccommand.args =
            << <<"overwrite", Documented("overwrite")>>,
               <<"indent", Documented("indent")>>,
               <<"margin", Documented("margin")>>,
               <<"always_for_in", Documented("alwaysForIn")>>,
               <<"whitespace_typedefs", Documented("whitespace_typedefs")>>,
               <<"whitespace_ops_in_indices",
                 Documented("whitespace_ops_in_indices")>> >>

PathConfigured == executablePath \notin {Undefined, ""}

\* C4: with a non-empty executable path configured, getJulia checks that
\* path only, never "julia" or "jl"; when the check fails it shows the
\* invalid-configured-path error and fails; when it succeeds it returns
\* that path (home directory expanded).
C4_ConfiguredPathIsHardStop ==
    PathConfigured =>
        \A t \in Threads :
            /\ \A i \in 1..Len(execs[t]) :
                   execs[t][i].kind = "version" =>
                       execs[t][i] = VersionCheck(untildify(executablePath), TRUE)
            /\ julia[t] # Null => julia[t] = untildify(executablePath)
            /\ GetJuliaFailed(t) =>
                   /\ msgs[t] = <<"InvalidPath">>
                   /\ Len(execs[t]) = 1
            /\ "NotInstalled" \notin {msgs[t][i] : i \in 1..Len(msgs[t])}

C4_Witness ==
    /\ PathConfigured
    /\ \E t \in Threads : GetJuliaFailed(t) /\ msgs[t] = <<"InvalidPath">>
    /\ \E t \in Threads : julia[t] = untildify(executablePath)

\* C5: with no executable path override configured (setting absent or
\* empty) getJulia tries "julia", then "jl", and returns the first that
\* validates; if both fail it shows the tool-not-installed error, not the
\* invalid-configured-path error, and no format command is built or run.
C5_DefaultsTriedInOrder ==
    ~PathConfigured =>
        \A r \in Requests :
            /\ execs[F(r)] # <<>> => execs[F(r)][1] = VersionCheck("julia", FALSE)
            /\ julia[F(r)] # Null =>
                   \/ julia[F(r)] = "julia" /\ execs[F(r)][2].kind = "format"
                   \/ /\ julia[F(r)] = "jl"
                      /\ execs[F(r)][2] = VersionCheck("jl", FALSE)
            /\ GetJuliaFailed(F(r)) =>
                   /\ msgs[F(r)] = <<"NotInstalled">>
                   /\ execs[F(r)] = <<VersionCheck("julia", FALSE),
                                      VersionCheck("jl", FALSE)>>
                   /\ command[r] = NoCommand

\* The replacement text the documentation describes for a hunk: its lines
\* other than deletions, from line i on, without their one-character
\* prefix, the hunk's first delimiter between them.
RECURSIVE DocumentedText(_, _)
DocumentedText(hunk, i) ==
    IF i > Len(hunk.lines) THEN <<>>
    ELSE IF hunk.lines[i][1] = "-" THEN DocumentedText(hunk, i + 1)
    ELSE LET rest == DocumentedText(hunk, i + 1)
             later == \E j \in (i + 1)..Len(hunk.lines) : hunk.lines[j][1] # "-"
         IN  SubSeq(hunk.lines[i], 2, Len(hunk.lines[i]))
             \o (IF later THEN <<hunk.linedelimiters[1]>> ELSE <<>>) \o rest

C7_NoEmptyEditList ==
    \A r \in Requests : outcome[r].state = "resolved" => outcome[r].edits # <<>>

Shown(r, prompt) == \E i \in 1..Len(msgs[F(r)]) : msgs[F(r)][i] = prompt

\* C8: alertFormattingError offers exactly one of the two actions: for an
\* error whose message contains the missing-library phrase the install
\* prompt, never the bug-report prompt, and the install runs only when the
\* user picks it; for any other error the bug-report prompt, and the install
\* never runs.
C8_ExactlyOneAction ==
    \A r \in Requests :
        errors[r] # <<>> =>
            /\ Len(msgs[F(r)]) = 1
            /\ IF Includes(errors[r], MissingPackageMarker)
               THEN /\ Shown(r, "InstallPrompt") /\ ~Shown(r, "BugPrompt")
                    /\ ~opened[r]
                    /\ execs[I(r)] # <<>> => picked[r]
               ELSE /\ Shown(r, "BugPrompt") /\ ~Shown(r, "InstallPrompt")
                    /\ execs[I(r)] = <<>>
                    /\ opened[r] => picked[r]

C8_Witness ==
    \E r, q \in Requests :
        /\ Includes(errors[r], MissingPackageMarker)
        /\ picked[r] /\ pc[I(r)] = "exec_install"
        /\ errors[q] # <<>> /\ ~Includes(errors[q], MissingPackageMarker)
        /\ opened[q]

\* C9: a format request in which tool resolution, the format command or
\* the parse fails is rejected with no edits (hunksToEdits never runs),
\* exactly one error message is shown for that failure, and none of the
\* request's subprocesses is run again.
C9_FailureRejectsOnce ==
    \A r \in Requests :
        /\ (msgs[F(r)] # <<>> \/ errors[r] # <<>>) => outcome[r].state = "rejected"
        /\ outcome[r].state = "rejected" =>
               /\ ~outcome[r].translated /\ outcome[r].edits = <<>>
               /\ Len(msgs[F(r)]) = 1
               /\ pc[F(r)] = "rejected"
        /\ NoRepeat(execs[F(r)])

C9_Witness ==
    \E r, q \in Requests :
        /\ outcome[r].state = "rejected" /\ errors[r] = ParseErrorMessage
        /\ outcome[q].state = "rejected" /\ GetJuliaFailed(F(q))

\* C10: when two format requests overlap and both commands succeed, each
\* request hides the indicator it created, so that after both have settled
\* no created indicator is still visible.
C10_NoIndicatorLeftAfterOverlap ==
    (\A r \in Requests : outcome[r].state = "resolved") =>
        \A r \in Requests : bars[r] = "hidden"

====
